---- MODULE Spec2Model ----
(***************************************************************************)
(* TradeMood: the sentiment scoring cache (Analyzer + DatabaseHandler),    *)
(* the single pipeline run (Pipeline.run_pipeline), the scheduled mode     *)
(* (Pipeline.start_scheduled_runs / stop_scheduled_runs on APScheduler's   *)
(* BackgroundScheduler) and the signal decision (SignalGenerator).         *)
(*                                                                         *)
(* Numbers: scores are exact rationals [n, d] (d > 0, lowest terms); the   *)
(* rounding of binary floating point is not modelled.                      *)
(* Strings: a text is the sequence of its characters.                      *)
(***************************************************************************)
EXTENDS Integers, Sequences, FiniteSets, TLC

VARIABLES
    \* ---- the store and the analyzer
    cache,        \* table sentiment_cache: rows in rowid order
    vaderCalls,   \* (source, text) -> times the lexicon scorer was invoked
    bertCalls,    \* (source, text) -> times the learned-model scorer was invoked
    computed,     \* (source, text) -> the result analyze_text last computed and cached
    last,         \* the last analyze_text call: its arguments and what it returned
    now,          \* datetime.now(), a logical clock: every call takes time
    calls,        \* number of analyze_text calls made directly
    faults,       \* number of faults (store or scorer errors) injected so far
    hashSeed,     \* the process's string hash seed (fixes set iteration order)
    bertLabels,   \* the label vocabulary of the loaded model
    \* ---- the signal generator
    sgIn,         \* the arguments of generate_trading_signal and the thresholds
    sgOut,        \* what the call returned, with the decision before gating
    \* ---- the trend generator
    tgIn,         \* the arguments of a call of the trend generator and its configuration
    tgOut,        \* what the call returned
    \* ---- two concurrent calls of analyze_text
    cIn,          \* the arguments the two calls share
    thPc,         \* thread -> where its call is
    thRet,        \* thread -> the result its call computed or read
    \* ---- Analyzer._extract_keywords called on its own
    kwIn,         \* the text, top_n and the process's hash seed
    kwOut,        \* what the call returned
    \* ---- one pipeline run
    pc,           \* where run_pipeline is
    items,        \* content_items: what fetch_all_sources returned
    idx,          \* the item the analysis loop is at
    results,      \* sentiment_results
    trendSig,     \* trend_signal
    priceFetch,   \* current_price and the price windows queried
    tradeSig,     \* trading_signal
    stages,           \* the collaborators called in this run, in call order
    outcome,          \* how the run ended: "returned" or "raised"
    failed,           \* an exception reached the top-level handler
    completed,        \* "Completed sentiment pipeline" was logged
    runs,             \* number of runs started
    runLog,           \* the runs that ended: their stages and how they ended
    analyses,         \* what each analyze_text call of this run returned
    \* ---- scheduled mode
    updateFrequency,  \* self.update_frequency
    validatesStep,    \* whether the installed scheduler library validates cron steps
    schedState,       \* the scheduler: "init", "running" or "stopped"
    jobs,             \* the jobs added to the scheduler, in add order
    clock,            \* wall clock, minutes since Sunday 00:00 America/New_York
    active,           \* the run_pipeline invocations executing now (indices of fired)
    ended,            \* the invocations that ran to their own end
    fired,            \* every firing of a job so far
    startOutcome,     \* how the latest start_scheduled_runs ended
    stopPc,           \* where stop_scheduled_runs is
    inFlightAtStop    \* the invocations executing when stop_scheduled_runs was called

storeVars ==
    <<cache, vaderCalls, bertCalls, computed, last, now, calls, faults, hashSeed, bertLabels>>
signalVars == <<sgIn, sgOut>>
trendVars == <<tgIn, tgOut>>
concVars == <<cIn, thPc, thRet>>
kwVars == <<kwIn, kwOut>>
runVars ==
    <<pc, items, idx, results, trendSig, priceFetch, tradeSig, stages, outcome,
      failed, completed, runs, runLog, analyses>>
schedVars ==
    <<updateFrequency, validatesStep, schedState, jobs, clock, active, ended, fired,
      startOutcome, stopPc, inFlightAtStop>>
vars == <<storeVars, signalVars, trendVars, concVars, kwVars, runVars, schedVars>>

----------------------------------------------------------------------------
\* Bounds of the model

MaxCalls == 2
MaxFaults == 1
GridSteps == 10
MaxRuns == 2
MaxEvents == 4
MaxData == 3

----------------------------------------------------------------------------
\* Values

None == [k |-> "None"]

\* exact rationals
Abs(i) == IF i < 0 THEN -i ELSE i

RECURSIVE Gcd(_, _)
Gcd(a, b) == IF b = 0 THEN a ELSE Gcd(b, a % b)

Rat(n, d) ==
    LET g == Gcd(Abs(n), Abs(d))
        s == IF d < 0 THEN -1 ELSE 1
    IN  [n |-> (s * n) \div g, d |-> (s * d) \div g]

RAdd(a, b) == Rat(a.n * b.d + b.n * a.d, a.d * b.d)
RSub(a, b) == Rat(a.n * b.d - b.n * a.d, a.d * b.d)
RMul(a, b) == Rat(a.n * b.n, a.d * b.d)
RNeg(a) == [n |-> -a.n, d |-> a.d]
RLt(a, b) == a.n * b.d < b.n * a.d
RLe(a, b) == a.n * b.d <= b.n * a.d
RAbs(a) == [n |-> Abs(a.n), d |-> a.d]
RMin(a, b) == IF RLt(b, a) THEN b ELSE a

\* datetime values: [k |-> "datetime", t |-> instant]; a str is [k |-> "str", ...]
DateTime(t) == [k |-> "datetime", t |-> t]
IsoStr(t) == [k |-> "str", t |-> t]

\* datetime.isoformat(): defined on datetime objects only (a str has no such method)
HasIsoformat(ts) == ts.k = "datetime"
isoformat(ts) == IsoStr(ts.t)
fromisoformat(s) == DateTime(s.t)

----------------------------------------------------------------------------
\* Strings

Space == " "
Comma == ","

Lower(c) == IF c = "G" THEN "g" ELSE IF c = "R" THEN "r" ELSE c

LowerStr(w) == [i \in 1..Len(w) |-> Lower(w[i])]

\* str.split(): split on runs of whitespace, no empty strings
RECURSIVE SplitWs(_, _, _)
SplitWs(s, cur, acc) ==
    IF s = <<>> THEN (IF cur = <<>> THEN acc ELSE Append(acc, cur))
    ELSE IF Head(s) = Space
         THEN SplitWs(Tail(s), <<>>, IF cur = <<>> THEN acc ELSE Append(acc, cur))
         ELSE SplitWs(Tail(s), Append(cur, Head(s)), acc)

split(s) == SplitWs(s, <<>>, <<>>)

\* str.split(sep): split on every separator, empty strings kept
RECURSIVE SplitSep(_, _, _, _)
SplitSep(s, sep, cur, acc) ==
    IF s = <<>> THEN Append(acc, cur)
    ELSE IF Head(s) = sep
         THEN SplitSep(Tail(s), sep, <<>>, Append(acc, cur))
         ELSE SplitSep(Tail(s), sep, Append(cur, Head(s)), acc)

split_on(s, sep) == SplitSep(s, sep, <<>>, <<>>)

\* sep.join(list)
RECURSIVE join(_, _)
join(sep, l) ==
    IF l = <<>> THEN <<>>
    ELSE IF Len(l) = 1 THEN l[1]
    ELSE l[1] \o <<sep>> \o join(sep, Tail(l))

\* text.strip()
RECURSIVE LStrip(_)
LStrip(s) == IF s # <<>> /\ Head(s) = Space THEN LStrip(Tail(s)) ELSE s

RECURSIVE RStrip(_)
RStrip(s) ==
    IF s # <<>> /\ s[Len(s)] = Space THEN RStrip(SubSeq(s, 1, Len(s) - 1)) ELSE s

strip(s) == RStrip(LStrip(s))

----------------------------------------------------------------------------
\* Inputs of the analyzer

TextPlain == <<"g","o","l","d"," ","r","i","s","e","s"," ","+">>
TextComma == <<"G","o","l","d",","," ","f","a","l","l","s"," ","-">>
TextShort == <<"u","p"," ","+","+">>

Texts == {TextPlain, TextComma, TextShort}
Sources == {"feedA", "feedB"}
Symbols == {"GC=F", "SI=F"}
PubDates == {None, DateTime(0), IsoStr(0)}

\* what can go wrong in one analyze_text call (at most one fault per call)
Envs == {"ok", "readFail", "writeFail", "bertFail", "vaderFail"}

\* the (source, text) pairs analysed: the same text from two sources, and
\* two more texts
Pairs == {<<"feedA", TextPlain>>, <<"feedB", TextPlain>>,
          <<"feedA", TextComma>>, <<"feedB", TextShort>>}

----------------------------------------------------------------------------
\* The scorers: opaque, stateless, deterministic functions of the text. The
\* stand-in counts "+" and "-" characters.

RECURSIVE Valence(_)
Valence(s) ==
    IF s = <<>> THEN 0
    ELSE (IF Head(s) = "+" THEN 1 ELSE IF Head(s) = "-" THEN -1 ELSE 0) + Valence(Tail(s))

Clamp(i, lo, hi) == IF i < lo THEN lo ELSE IF i > hi THEN hi ELSE i

\* SentimentIntensityAnalyzer.polarity_scores(text)['compound'], in [-1, 1]
polarity_scores(text) == Rat(Clamp(Valence(text), -20, 20), 20)

\* the transformers pipeline's first result: a label and a confidence. labels
\* is the label vocabulary of the loaded model.
bert_pipeline(text, labels) ==
    LET v == Valence(text)
        c == IF v > 0 THEN "positive" ELSE IF v < 0 THEN "negative" ELSE "neutral"
    IN  [label |-> IF labels = "long" THEN c
                   ELSE IF c = "positive" THEN "POS"
                   ELSE IF c = "negative" THEN "NEG" ELSE "NEU",
         score |-> Rat(9, 10)]

\* str.lower() on a label
LowerLabel(l) ==
    IF l = "POS" THEN "pos" ELSE IF l = "NEG" THEN "neg" ELSE IF l = "NEU" THEN "neu" ELSE l

IsWordChar(c) == c \notin {Space, Comma, "@", "#", "+", "-"}

RECURSIVE DropWordChars(_)
DropWordChars(s) == IF s # <<>> /\ IsWordChar(Head(s)) THEN DropWordChars(Tail(s)) ELSE s

\* re.sub(r'\@\w+|\#', '', text); the URL pattern of the preceding re.sub needs
\* "http" or "www", which no text of the model contains
RECURSIVE RemoveMentions(_)
RemoveMentions(s) ==
    IF s = <<>> THEN <<>>
    ELSE IF Head(s) = "#" THEN RemoveMentions(Tail(s))
    ELSE IF Head(s) = "@" /\ Len(s) > 1 /\ IsWordChar(s[2])
         THEN RemoveMentions(DropWordChars(Tail(s)))
         ELSE <<Head(s)>> \o RemoveMentions(Tail(s))

clean_and_truncate_text(text, max_length) ==
    LET t == strip(RemoveMentions(text))
    IN  SubSeq(t, 1, IF Len(t) < max_length THEN Len(t) ELSE max_length)

convert_bert_label_to_score(bert_result) ==
    LET label == LowerLabel(bert_result.label)
    IN  IF label = "positive" THEN bert_result.score
        ELSE IF label = "negative" THEN RNeg(bert_result.score)
        ELSE Rat(0, 1)

\* mutant: the two scores weigh the same
normalize_scores_Equal(vader_score, bert_score) ==
    RAdd(RMul(vader_score, Rat(5, 10)), RMul(bert_score, Rat(5, 10)))

\* vader_score * 0.6 + bert_score * 0.4
normalize_scores(vader_score, bert_score) ==
    RAdd(RMul(vader_score, Rat(6, 10)), RMul(bert_score, Rat(4, 10)))

----------------------------------------------------------------------------
\* Keyword extraction

RECURSIVE Filter4(_)
Filter4(ws) ==
    IF ws = <<>> THEN <<>>
    ELSE (IF Len(Head(ws)) > 3 THEN <<LowerStr(Head(ws))>> ELSE <<>>) \o Filter4(Tail(ws))

RECURSIVE Count(_, _)
Count(ws, w) ==
    IF ws = <<>> THEN 0 ELSE (IF Head(ws) = w THEN 1 ELSE 0) + Count(Tail(ws), w)

RECURSIVE Dedup(_, _)
Dedup(ws, acc) ==
    IF ws = <<>> THEN acc
    ELSE Dedup(Tail(ws), IF \E i \in 1..Len(acc) : acc[i] = Head(ws) THEN acc
                         ELSE Append(acc, Head(ws)))

Reverse(s) == [i \in 1..Len(s) |-> s[Len(s) + 1 - i]]

\* iteration order of set(words): fixed by the process's hash seed; the two
\* outcomes modelled are first-seen order and its reverse
SetOrder(ws, seed) == IF seed = 0 THEN Dedup(ws, <<>>) ELSE Reverse(Dedup(ws, <<>>))

\* sorted(items, key=count, reverse=True): stable, descending
RECURSIVE InsertDesc(_, _, _)
InsertDesc(sorted, w, ws) ==
    IF sorted = <<>> THEN <<w>>
    ELSE IF Count(ws, Head(sorted)) >= Count(ws, w)
         THEN <<Head(sorted)>> \o InsertDesc(Tail(sorted), w, ws)
         ELSE <<w>> \o sorted

RECURSIVE SortDesc(_, _, _)
SortDesc(todo, sorted, ws) ==
    IF todo = <<>> THEN sorted
    ELSE SortDesc(Tail(todo), InsertDesc(sorted, Head(todo), ws), ws)

extract_keywords(text, top_n, seed) ==
    LET words == Filter4(split(text))
        sorted_words == SortDesc(SetOrder(words, seed), <<>>, words)
    IN  SubSeq(sorted_words, 1, IF Len(sorted_words) < top_n THEN Len(sorted_words) ELSE top_n)

----------------------------------------------------------------------------
\* DatabaseHandler: table sentiment_cache, UNIQUE(symbol, source, text)

max_length == 100
top_n == 5

SentimentResult(symbol, text, source, timestamp, vader_score, bert_score, normalized_score, keywords) ==
    [symbol |-> symbol, text |-> text, source |-> source, timestamp |-> timestamp,
     vader_score |-> vader_score, bert_score |-> bert_score,
     normalized_score |-> normalized_score, keywords |-> keywords]

\* the row written for a result
RowOf(result) ==
    [symbol |-> result.symbol, source |-> result.source, text |-> result.text,
     timestamp |-> isoformat(result.timestamp),
     vader_score |-> result.vader_score, bert_score |-> result.bert_score,
     normalized_score |-> result.normalized_score,
     keywords |-> join(Comma, result.keywords)]

\* row[7].split(",") if row[7] else []
ParseKeywords(k) == IF k # <<>> THEN split_on(k, Comma) ELSE <<>>

\* the result built from a row
ResultOf(row) ==
    SentimentResult(row.symbol, row.text, row.source, fromisoformat(row.timestamp),
                    row.vader_score, row.bert_score, row.normalized_score,
                    ParseKeywords(row.keywords))

SameKey(row, result) ==
    row.symbol = result.symbol /\ row.source = result.source /\ row.text = result.text

\* mutant: the write never happens
cache_sentiment_result_Fails(c, result, dbOk) == [ok |-> FALSE, cache |-> c]

\* INSERT OR REPLACE: [ok, cache]. Building the parameters calls
\* result.timestamp.isoformat() inside the try; any exception gives False
cache_sentiment_result(c, result, dbOk) ==
    IF ~dbOk \/ ~HasIsoformat(result.timestamp)
    THEN [ok |-> FALSE, cache |-> c]
    ELSE [ok |-> TRUE,
          cache |-> Append(SelectSeq(c, LAMBDA row : ~SameKey(row, result)), RowOf(result))]

\* SELECT ... WHERE source = ? AND text = ?, fetchone(): the first row in rowid order
\* mutant: the lookup matches no row
Selected_Never(row, source, text) == FALSE

\* WHERE source = ? AND text = ?
Selected(row, source, text) == row.source = source /\ row.text = text

get_cached_sentiment(c, source, text, dbOk) ==
    IF ~dbOk THEN None
    ELSE LET rows == SelectSeq(c, LAMBDA row : Selected(row, source, text))
         IN  IF rows = <<>> THEN None ELSE ResultOf(rows[1])

----------------------------------------------------------------------------
\* Analyzer.analyze_text: what one call returns and does, as a record
\*   ret: the SentimentResult or None; cache: the table after the call;
\*   hit: served from the cache; vader, bert: whether each scorer was invoked;
\*   stored: whether the computed result was written

\* mutant: a failed write makes the call return None
Returned_NoneOnFailure(result, w) == IF w.ok THEN result ELSE None

\* self.db_handler.cache_sentiment_result(result); return result
Returned(result, w) == result

analyze_text(c, text, source, symbol, pub_date, env, nowv, seed, labels) ==
    LET cached == get_cached_sentiment(c, source, text, env # "readFail") IN
    IF cached # None
    THEN [ret |-> cached, cache |-> c, hit |-> TRUE,
          vader |-> FALSE, bert |-> FALSE, stored |-> FALSE]
    ELSE IF env = "vaderFail"
    THEN [ret |-> None, cache |-> c, hit |-> FALSE,
          vader |-> TRUE, bert |-> FALSE, stored |-> FALSE]
    ELSE
      LET timestamp == IF pub_date # None THEN pub_date ELSE DateTime(nowv)
          vader_score == polarity_scores(text)
          truncated_text == clean_and_truncate_text(text, max_length)
          bert_score == IF env = "bertFail" THEN Rat(0, 1)
                        ELSE convert_bert_label_to_score(
                                 bert_pipeline(truncated_text, labels))
          normalized_score == normalize_scores(vader_score, bert_score)
          keywords == extract_keywords(text, top_n, seed)
          result == SentimentResult(symbol, text, source, timestamp, vader_score,
                                    bert_score, normalized_score, keywords)
          w == cache_sentiment_result(c, result, env # "writeFail")
      IN  [ret |-> Returned(result, w), cache |-> w.cache, hit |-> FALSE,
           vader |-> TRUE, bert |-> TRUE, stored |-> w.ok]

Inc(i) == IF i < MaxCalls + 1 THEN i + 1 ELSE i

\* the bookkeeping of one call with outcome o
Recorded(o, text, source, symbol, env) ==
    /\ cache' = o.cache
    /\ vaderCalls' = IF o.vader
                     THEN [vaderCalls EXCEPT ![<<source, text>>] = Inc(@)] ELSE vaderCalls
    /\ bertCalls' = IF o.bert
                    THEN [bertCalls EXCEPT ![<<source, text>>] = Inc(@)] ELSE bertCalls
    /\ computed' = IF o.stored THEN [computed EXCEPT ![<<source, text>>] = o.ret]
                   ELSE computed
    /\ last' = [text |-> text, source |-> source, symbol |-> symbol,
                ret |-> o.ret, hit |-> o.hit, stored |-> o.stored, env |-> env]

\* a direct call of analyze_text
AnalyzeText(text, source, symbol, pub_date, env) ==
    /\ calls < MaxCalls
    /\ env # "ok" => faults < MaxFaults
    /\ LET o == analyze_text(cache, text, source, symbol, pub_date, env, now,
                             hashSeed, bertLabels)
       IN  Recorded(o, text, source, symbol, env)
    /\ calls' = calls + 1
    /\ now' = now + 1
    /\ faults' = IF env # "ok" THEN faults + 1 ELSE faults
    /\ UNCHANGED <<hashSeed, bertLabels>>

StoreInit ==
    /\ cache = <<>>
    /\ vaderCalls = [p \in Pairs |-> 0]
    /\ bertCalls = [p \in Pairs |-> 0]
    /\ computed = [p \in Pairs |-> None]
    /\ last = None
    /\ now = 1
    /\ calls = 0
    /\ faults = 0

----------------------------------------------------------------------------
\* SignalGenerator

TrendSignal(timestamp, short_term_trend, medium_term_trend, long_term_trend, trend_strength, change_direction) ==
    [timestamp |-> timestamp, short_term_trend |-> short_term_trend,
     medium_term_trend |-> medium_term_trend, long_term_trend |-> long_term_trend,
     trend_strength |-> trend_strength, change_direction |-> change_direction]

TradingSignal(timestamp, symbol, sentiment_score, price, signal, confidence) ==
    [timestamp |-> timestamp, symbol |-> symbol, sentiment_score |-> sentiment_score,
     price |-> price, signal |-> signal, confidence |-> confidence]

\* SignalGenerator.__init__: thresholds or the defaults
DefaultThresholds ==
    [buy |-> Rat(5, 10), sell |-> Rat(-5, 10), confidence_threshold |-> Rat(7, 10)]

\* mutant: the comparisons are not strict
BaseSignal_NotStrict(trend_signal, thresholds) ==
    IF RLe(thresholds["buy"], trend_signal.short_term_trend) THEN "BUY"
    ELSE IF RLe(trend_signal.short_term_trend, thresholds["sell"]) THEN "SELL"
    ELSE "HOLD"

\* the basic signal, from short_term_trend alone
BaseSignal(trend_signal, thresholds) ==
    IF RLt(thresholds["buy"], trend_signal.short_term_trend) THEN "BUY"
    ELSE IF RLt(trend_signal.short_term_trend, thresholds["sell"]) THEN "SELL"
    ELSE "HOLD"

\* mutant: the absolute value is left out
Confidence_NoAbs(trend_signal) ==
    RMin(trend_signal.short_term_trend, trend_signal.trend_strength)

\* mutant: the confidence is the trend strength alone
Confidence_StrengthOnly(trend_signal) == trend_signal.trend_strength

\* confidence = min(abs(short_term_trend), trend_strength)
Confidence(trend_signal) ==
    RMin(RAbs(trend_signal.short_term_trend), trend_signal.trend_strength)

\* mutant: the confidence gate is left out
Gate_Missing(signal, confidence, thresholds) == signal

\* only act if confidence exceeds the threshold
Gate(signal, confidence, thresholds) ==
    IF RLt(confidence, thresholds["confidence_threshold"]) THEN "HOLD" ELSE signal

\* a lookup of a missing key raises KeyError inside the try: logged, None
ThresholdsRaise(trend_signal, thresholds) ==
    \/ "buy" \notin DOMAIN thresholds
    \/ /\ ~RLt(thresholds["buy"], trend_signal.short_term_trend)
       /\ "sell" \notin DOMAIN thresholds
    \/ "confidence_threshold" \notin DOMAIN thresholds

\* [ret: the TradingSignal or None, base: the signal before gating]
generate_trading_signal(symbol, trend_signal, current_price, thresholds, nowv) ==
    IF trend_signal = None THEN [ret |-> None, base |-> None]
    ELSE IF ThresholdsRaise(trend_signal, thresholds) THEN [ret |-> None, base |-> None]
    ELSE LET signal == BaseSignal(trend_signal, thresholds)
             confidence == Confidence(trend_signal)
         IN  [ret |-> TradingSignal(DateTime(nowv), symbol, trend_signal.short_term_trend,
                                    current_price, Gate(signal, confidence, thresholds),
                                    confidence),
              base |-> signal]

\* inputs of the signal generator
ShortGrid ==
    {Rat(i, GridSteps) : i \in -GridSteps..GridSteps}
        \cup {Rat(9, 10), Rat(8, 10), Rat(6, 10), Rat(5, 10), Rat(-5, 10), Rat(-8, 10)}
StrengthGrid ==
    {Rat(i, GridSteps) : i \in 0..GridSteps} \cup {Rat(1, 100), Rat(9, 10), Rat(4, 10)}
ThresholdChoices ==
    {DefaultThresholds,
     [buy |-> Rat(2, 10), sell |-> Rat(-3, 10), confidence_threshold |-> Rat(1, 10)],
     [buy |-> Rat(5, 10), sell |-> Rat(-5, 10)]}
SignalInputs ==
    {[trend_signal |-> None, thresholds |-> DefaultThresholds]}
        \cup {[trend_signal |-> TrendSignal(DateTime(0), s, Rat(0, 1), Rat(0, 1), g, 0),
               thresholds |-> th] :
                  s \in ShortGrid, g \in StrengthGrid, th \in ThresholdChoices}

GenerateTradingSignal ==
    /\ sgIn # None
    /\ sgOut = None
    /\ sgOut' = [out |-> generate_trading_signal("GC=F", sgIn.trend_signal, Rat(0, 1),
                                                 sgIn.thresholds, 1)]
    /\ UNCHANGED sgIn

SignalIdle == sgIn = None /\ sgOut = None

TrendIdle == tgIn = None /\ tgOut = None

Threads == {1, 2}

KwIdle == kwIn = None /\ kwOut = None

ConcIdle == cIn = None /\ thPc = [t \in Threads |-> "idle"] /\ thRet = [t \in Threads |-> None]

StoreIdle == StoreInit /\ hashSeed = 0 /\ bertLabels = "long"

----------------------------------------------------------------------------
\* TrendGenerator

DefaultWindowSizes == [short_term |-> 3, medium_term |-> 7, long_term |-> 14]

Max(S) == CHOOSE x \in S : \A y \in S : y <= x
Min(S) == CHOOSE x \in S : \A y \in S : x <= y

MaxWindow(window_sizes) == Max({window_sizes[k] : k \in DOMAIN window_sizes})

\* minutes in a resampling bin; an unknown token resamples by the hour
ResampleMinutes(update_frequency) ==
    CASE update_frequency = "5m" -> 5
      [] update_frequency = "15m" -> 15
      [] update_frequency = "1h" -> 60
      [] update_frequency = "4h" -> 240
      [] update_frequency = "1d" -> 1440
      [] OTHER -> 60

\* mutant: every minute is a bin of its own
Bin_PerMinute(t, width) == t

\* the fixed-width bin a timestamp falls in
Bin(t, width) == t \div width

\* pd.to_datetime raises on a column that mixes timezone-aware datetimes
\* with naive strings
MixedTimestamps(data) ==
    \E i, j \in 1..Len(data) : data[i].timestamp.k # data[j].timestamp.k

RECURSIVE RSum(_)
RSum(q) == IF q = <<>> THEN Rat(0, 1) ELSE RAdd(Head(q), RSum(Tail(q)))

RMean(q) == RMul(RSum(q), Rat(1, Len(q)))

\* resample(freq).mean(): the mean score of bin b, None for an empty bin.
\* The mean of a bin does not depend on the order of its rows.
ScoresIn(data, b, width) ==
    LET Pick(r) == Bin(r.timestamp.t, width) = b
        rows == SelectSeq(data, Pick)
    IN  [i \in 1..Len(rows) |-> rows[i].normalized_score]

\* .ffill(): an empty bin takes the value of the last non-empty bin before it
RECURSIVE Filled(_, _, _)
Filled(data, b, width) ==
    IF ScoresIn(data, b, width) # <<>> THEN RMean(ScoresIn(data, b, width))
    ELSE Filled(data, b - 1, width)

\* mutant: the scores in the order given, neither sorted nor resampled
Resampled_InputOrder(data, width) == [k \in 1..Len(data) |-> data[k].normalized_score]

\* the resampled, forward-filled series: one value per bin from the bin of
\* the first observation to the bin of the last
Resampled(data, width) ==
    LET bins == {Bin(data[i].timestamp.t, width) : i \in 1..Len(data)}
        first == Min(bins)
        n == Max(bins) - first + 1
    IN  [k \in 1..n |-> Filled(data, first + k - 1, width)]

\* rolling(window).mean().iloc[-1]
RollingLast(series, window) ==
    RMean(SubSeq(series, Len(series) - window + 1, Len(series)))

\* mutant: the divergence is not capped
calculate_trend_strength_Uncapped(short, medium, long) ==
    RMul(RAdd(RAbs(RSub(short, medium)), RAbs(RSub(medium, long))), Rat(10, 1))

\* min(divergence * 10, 1.0)
calculate_trend_strength(short, medium, long) ==
    LET divergence == RAdd(RAbs(RSub(short, medium)), RAbs(RSub(medium, long)))
    IN  RMin(RMul(divergence, Rat(10, 1)), Rat(1, 1))

\* mutant: the comparisons are not strict
determine_direction_NotStrict(short, medium, long) ==
    IF RLe(medium, short) /\ RLe(long, medium) THEN 1
    ELSE IF RLe(short, medium) /\ RLe(medium, long) THEN -1
    ELSE 0

\* short > medium > long gives 1, short < medium < long gives -1
determine_direction(short, medium, long) ==
    IF RLt(medium, short) /\ RLt(long, medium) THEN 1
    ELSE IF RLt(short, medium) /\ RLt(medium, long) THEN -1
    ELSE 0

\* mutant: only the empty input is insufficient
Insufficient_EmptyOnly(sentiment_data, window_sizes) == sentiment_data = <<>>

\* not sentiment_data or len(sentiment_data) < max(self.window_sizes.values())
Insufficient(sentiment_data, window_sizes) ==
    sentiment_data = <<>> \/ Len(sentiment_data) < MaxWindow(window_sizes)

generate_trend_signals(sentiment_data, window_sizes, update_frequency, nowv) ==
    IF Insufficient(sentiment_data, window_sizes) THEN None
    ELSE IF MixedTimestamps(sentiment_data) THEN None
    ELSE
      LET df == Resampled(sentiment_data, ResampleMinutes(update_frequency))
          min_required == MaxWindow(window_sizes)
      IN  IF Len(df) < min_required THEN None
          ELSE LET short_term == RollingLast(df, window_sizes["short_term"])
                   medium_term == RollingLast(df, window_sizes["medium_term"])
                   long_term == RollingLast(df, window_sizes["long_term"])
               IN  TrendSignal(DateTime(nowv), short_term, medium_term, long_term,
                               calculate_trend_strength(short_term, medium_term, long_term),
                               determine_direction(short_term, medium_term, long_term))

----------------------------------------------------------------------------
\* Pipeline.run_pipeline, one step per collaborator call

\* the pipeline's configuration: the symbol of its fetcher, and a trend
\* generator constructed with window_sizes and update_frequency
PipeSymbol == "GC=F"
PipeWindowSizes == [short_term |-> 1, medium_term |-> 2, long_term |-> 3]
PipeFrequency == "5m"

\* content items as Fetcher._fetch_rss_feed builds them
Item(source, title, summary, t) ==
    [source |-> source, title |-> title, summary |-> summary, published |-> DateTime(t)]

\* a headline as Fetcher._scrape_web_content builds it: an empty summary and
\* 'published' a string
Scraped(source, title, t) ==
    [source |-> source, title |-> title, summary |-> <<>>, published |-> IsoStr(t)]

\* an item of a substitute fetcher without a title: item['title'] raises KeyError
Malformed(source) == [source |-> source, summary |-> <<>>, published |-> DateTime(0)]

Gold == <<"g","o","l","d">>
RisesPlus == <<"r","i","s","e","s"," ","+">>
GoldComma == <<"G","o","l","d",",">>
FallsMinus == <<"f","a","l","l","s"," ","-">>

ItemPlain(t) == Item("feedA", Gold, RisesPlus, t)
ItemPlainB(t) == Item("feedB", Gold, RisesPlus, t)
ItemComma(t) == Item("feedA", GoldComma, FallsMinus, t)
ItemShort(t) == Scraped("feedB", TextShort, t)

\* what fetch_all_sources may return
Batches ==
    { <<>>,
      <<ItemPlain(0)>>,
      <<ItemPlain(0), ItemComma(5), ItemPlainB(10)>>,
      <<ItemShort(0), ItemShort(5), ItemShort(10)>>,
      <<ItemPlain(0), ItemShort(5), ItemComma(10)>>,
      <<ItemPlain(0), Malformed("feedA"), ItemComma(5)>> }

\* f"{item['title']} {item['summary']}".strip()
ItemText(item) == strip(item.title \o <<Space>> \o item.summary)

\* mutant: log_error never re-raises
log_error_Swallows(raise_exception) == FALSE

\* mutant: log_error always re-raises
log_error_Raises(raise_exception) == TRUE

\* ErrorHandler.log_error: whether the logged error is raised again
log_error(raise_exception) == raise_exception

\* mutant: the price is fetched whatever the trend generator returned
AfterTrend_Always(trend_signal) == "price"

\* where the run goes after the trend generator returned
AfterTrend(trend_signal) == IF trend_signal # None THEN "price" ELSE "complete"

\* where the run goes after the analysis loop
AfterAnalysis(sentiment_results) == IF sentiment_results # <<>> THEN "trend" ELSE "complete"

\* the windows a price feed may return (closes, oldest first): for 5 days
\* and for 30 days, each possibly empty
PriceWindows5 == {<<>>, <<Rat(3440, 1), Rat(34526, 10)>>}
PriceWindows30 == {<<>>, <<Rat(3400, 1)>>}

\* the price a window gives: price_data["Close"].iloc[-1]
LastClose(h) == h[Len(h)]

\* mutant: an empty 5-day window gives 0.0 at once
price_of_NoFallback(h5, h30, exc) ==
    IF exc = "5d" THEN [current_price |-> Rat(0, 1), queried |-> <<"5d">>]
    ELSE IF h5 # <<>> THEN [current_price |-> LastClose(h5), queried |-> <<"5d">>]
    ELSE [current_price |-> Rat(0, 1), queried |-> <<"5d">>]

\* the price block: exc is where yfinance raises, if it does
price_of(h5, h30, exc) ==
    IF exc = "5d" THEN [current_price |-> Rat(0, 1), queried |-> <<"5d">>]
    ELSE IF h5 # <<>> THEN [current_price |-> LastClose(h5), queried |-> <<"5d">>]
    ELSE IF exc = "30d" THEN [current_price |-> Rat(0, 1), queried |-> <<"5d", "30d">>]
    ELSE IF h30 = <<>> THEN [current_price |-> Rat(0, 1), queried |-> <<"5d", "30d">>]
    ELSE [current_price |-> LastClose(h30), queried |-> <<"5d", "30d">>]

\* the price block with what the price feed held
fetch_price(h5, h30, exc) ==
    [current_price |-> price_of(h5, h30, exc).current_price,
     queried |-> price_of(h5, h30, exc).queried,
     h5 |-> h5, h30 |-> h30, exc |-> exc]

\* mutant: every return value is collected
Collected_All(sentiment_results, result) == Append(sentiment_results, result)

\* if result: sentiment_results.append(result)
Collected(sentiment_results, result) ==
    IF result # None THEN Append(sentiment_results, result) ELSE sentiment_results

StartRun ==
    /\ pc \in {"idle", "done"}
    /\ runs < MaxRuns
    /\ pc' = "fetch"
    /\ runs' = runs + 1
    /\ items' = <<>> /\ idx' = 0 /\ results' = <<>>
    /\ trendSig' = None /\ priceFetch' = None /\ tradeSig' = None
    /\ stages' = <<>> /\ outcome' = "none" /\ failed' = FALSE /\ completed' = FALSE
    /\ analyses' = <<>>
    /\ UNCHANGED runLog
    /\ UNCHANGED <<storeVars, signalVars, trendVars, concVars, kwVars, schedVars>>

\* content_items = self.fetcher.fetch_all_sources()
Fetch(batch, raises) ==
    /\ pc = "fetch"
    /\ stages' = Append(stages, "fetch")
    /\ IF raises
       THEN pc' = "except" /\ failed' = TRUE /\ UNCHANGED <<items, idx>>
       ELSE pc' = "analyze" /\ items' = batch /\ idx' = 1 /\ UNCHANGED failed
    /\ UNCHANGED <<results, trendSig, priceFetch, tradeSig, outcome, completed, runs, runLog, analyses>>
    /\ UNCHANGED <<storeVars, signalVars, trendVars, concVars, kwVars, schedVars>>

\* one iteration of the loop over content_items
AnalyzeItem(env) ==
    /\ pc = "analyze"
    /\ idx <= Len(items)
    /\ LET item == items[idx] IN
       IF "title" \notin DOMAIN item
       THEN /\ env = "ok"
            /\ pc' = "except" /\ failed' = TRUE
            /\ UNCHANGED <<idx, results, stages, analyses, storeVars>>
       ELSE /\ env # "ok" => faults < MaxFaults
            /\ LET o == analyze_text(cache, ItemText(item), item.source, PipeSymbol,
                                     item.published, env, now, hashSeed, bertLabels)
               IN  /\ Recorded(o, ItemText(item), item.source, PipeSymbol, env)
                   /\ results' = Collected(results, o.ret)
                   /\ analyses' = Append(analyses, [ret |-> o.ret, hit |-> o.hit,
                                                    stored |-> o.stored,
                                                    writeFault |-> env = "writeFail"])
            /\ now' = now + 1
            /\ faults' = IF env # "ok" THEN faults + 1 ELSE faults
            /\ stages' = Append(stages, "analyze")
            /\ idx' = idx + 1
            /\ UNCHANGED <<pc, failed, calls, hashSeed, bertLabels>>
    /\ UNCHANGED <<items, trendSig, priceFetch, tradeSig, outcome, completed, runs, runLog>>
    /\ UNCHANGED <<signalVars, trendVars, concVars, kwVars, schedVars>>

\* the loop is over: if sentiment_results
EndAnalysis ==
    /\ pc = "analyze"
    /\ idx > Len(items)
    /\ pc' = AfterAnalysis(results)
    /\ UNCHANGED <<items, idx, results, trendSig, priceFetch, tradeSig, stages, outcome,
                   failed, completed, runs, runLog, analyses>>
    /\ UNCHANGED <<storeVars, signalVars, trendVars, concVars, kwVars, schedVars>>

\* trend_signal = self.trend_generator.generate_trend_signals(sentiment_results)
GenerateTrend ==
    /\ pc = "trend"
    /\ LET t == generate_trend_signals(results, PipeWindowSizes, PipeFrequency, now)
       IN  trendSig' = t /\ pc' = AfterTrend(t)
    /\ stages' = Append(stages, "trend")
    /\ UNCHANGED <<items, idx, results, priceFetch, tradeSig, outcome, failed, completed, runs, runLog, analyses>>
    /\ UNCHANGED <<storeVars, signalVars, trendVars, concVars, kwVars, schedVars>>

\* the price block: ticker.history(period="5d"), then "30d"
FetchPrice(h5, h30, exc) ==
    /\ pc = "price"
    /\ priceFetch' = fetch_price(h5, h30, exc)
    /\ stages' = Append(stages, "price")
    /\ pc' = "signal"
    /\ UNCHANGED <<items, idx, results, trendSig, tradeSig, outcome, failed, completed, runs, runLog, analyses>>
    /\ UNCHANGED <<storeVars, signalVars, trendVars, concVars, kwVars, schedVars>>

\* trading_signal = self.trading_generator.generate_trading_signal(...)
GenerateSignal ==
    /\ pc = "signal"
    /\ tradeSig' = generate_trading_signal(PipeSymbol, trendSig, priceFetch.current_price,
                                           DefaultThresholds, now).ret
    /\ stages' = Append(stages, "signal")
    /\ pc' = "complete"
    /\ UNCHANGED <<items, idx, results, trendSig, priceFetch, outcome, failed, completed, runs, runLog, analyses>>
    /\ UNCHANGED <<storeVars, signalVars, trendVars, concVars, kwVars, schedVars>>

\* log_info("Completed sentiment pipeline") and the normal return
Complete ==
    /\ pc = "complete"
    /\ completed' = TRUE
    /\ outcome' = "returned"
    /\ runLog' = Append(runLog, [stages |-> stages, outcome |-> "returned"])
    /\ pc' = "done"
    /\ UNCHANGED <<items, idx, results, trendSig, priceFetch, tradeSig, stages, failed, runs, analyses>>
    /\ UNCHANGED <<storeVars, signalVars, trendVars, concVars, kwVars, schedVars>>

\* except Exception as e: log_error(e, ..., raise_exception=True)
Except ==
    /\ pc = "except"
    /\ LET o == IF log_error(TRUE) THEN "raised" ELSE "returned"
       IN  outcome' = o /\ runLog' = Append(runLog, [stages |-> stages, outcome |-> o])
    /\ pc' = "done"
    /\ UNCHANGED <<items, idx, results, trendSig, priceFetch, tradeSig, stages, failed,
                   completed, runs, analyses>>
    /\ UNCHANGED <<storeVars, signalVars, trendVars, concVars, kwVars, schedVars>>

\* scheduled mode was never started
SchedIdle ==
    /\ updateFrequency = "1h" /\ validatesStep = TRUE
    /\ schedState = "init" /\ jobs = <<>> /\ clock = 0
    /\ active = {} /\ ended = {} /\ fired = <<>>
    /\ startOutcome = "none" /\ stopPc = "none" /\ inFlightAtStop = {}

RunIdle ==
    /\ pc = "idle" /\ items = <<>> /\ idx = 0 /\ results = <<>>
    /\ trendSig = None /\ priceFetch = None /\ tradeSig = None
    /\ stages = <<>> /\ outcome = "none" /\ failed = FALSE /\ completed = FALSE
    /\ runs = 0 /\ runLog = <<>> /\ analyses = <<>>

\* the analyzer is constructed with its default model, whose labels are short
PipeInit ==
    /\ StoreInit /\ hashSeed = 0 /\ bertLabels = "short"
    /\ SignalIdle /\ TrendIdle /\ ConcIdle /\ KwIdle
    /\ RunIdle
    /\ SchedIdle

PipeNext ==
    \/ StartRun
    \/ \E batch \in Batches, raises \in BOOLEAN : Fetch(batch, raises)
    \/ \E env \in Envs : AnalyzeItem(env)
    \/ EndAnalysis
    \/ GenerateTrend
    \/ \E h5 \in PriceWindows5, h30 \in PriceWindows30, exc \in {"none", "5d", "30d"} :
           FetchPrice(h5, h30, exc)
    \/ GenerateSignal
    \/ Complete
    \/ Except

PipeSpec == PipeInit /\ [][PipeNext]_vars

----------------------------------------------------------------------------
\* Dashboard._update_all_data: the refresh of the dashboard, between runs of
\* the pipeline over the same database

\* DELETE FROM sentiment_cache WHERE symbol = ?
clear_sentiment_cache_for_symbol(c, symbol) ==
    SelectSeq(c, LAMBDA row : row.symbol # symbol)

\* the refresh clears the cache rows of its symbol and then runs a pipeline
\* it builds for that symbol; the run goes on with the steps of run_pipeline
UpdateAllData ==
    /\ pc \in {"idle", "done"}
    /\ runs < MaxRuns
    /\ cache' = clear_sentiment_cache_for_symbol(cache, PipeSymbol)
    /\ pc' = "fetch"
    /\ runs' = runs + 1
    /\ items' = <<>> /\ idx' = 0 /\ results' = <<>>
    /\ trendSig' = None /\ priceFetch' = None /\ tradeSig' = None
    /\ stages' = <<>> /\ outcome' = "none" /\ failed' = FALSE /\ completed' = FALSE
    /\ analyses' = <<>>
    /\ UNCHANGED runLog
    /\ UNCHANGED <<vaderCalls, bertCalls, computed, last, now, calls, faults, hashSeed,
                   bertLabels>>
    /\ UNCHANGED <<signalVars, trendVars, concVars, kwVars, schedVars>>

RefreshNext == UpdateAllData \/ PipeNext

RefreshSpec == PipeInit /\ [][RefreshNext]_vars

----------------------------------------------------------------------------
\* Pipeline.start_scheduled_runs and stop_scheduled_runs, with the scheduler
\* they drive.  A scheduled invocation of run_pipeline is in progress from its
\* firing to its own end; what it does in between is the run modelled above.

\* a wall-clock instant: day of week (0 = Sunday), hour, minute
At(day, hour, minute) == (day * 24 + hour) * 60 + minute

DayOf(t) == (t \div (24 * 60)) % 7
HourOf(t) == (t \div 60) % 24

\* freq_map.get(self.update_frequency, 60)
interval_minutes(update_frequency) ==
    CASE update_frequency = "5m" -> 5
      [] update_frequency = "15m" -> 15
      [] update_frequency = "1h" -> 60
      [] update_frequency = "4h" -> 240
      [] update_frequency = "1d" -> 1440
      [] OTHER -> 60

\* the minute field is 0..59: a library that validates the step refuses a step
\* above the range of the field (ValueError)
CronRaises(step, validates) == validates /\ step > 59

\* a job: CronTrigger(day_of_week, hour, minute='*/step') and next_run_time
Job(days, hours, step, next_run_time) ==
    [days |-> days, hours |-> hours, step |-> step, next_run_time |-> next_run_time,
     first |-> TRUE]

\* the hour h (counted from Sunday 00:00) matches the day and hour fields
HourMatches(job, h) == ((h \div 24) % 7) \in job.days /\ (h % 24) \in job.hours

RECURSIVE NextDay(_, _)
NextDay(job, d) == IF (d % 7) \in job.days THEN d ELSE NextDay(job, d + 1)

\* the first matching hour at or after the hour h
NextHour(job, h) ==
    LET d == h \div 24
        later == {x \in job.hours : x >= h % 24}
    IN  IF (d % 7) \in job.days /\ later # {} THEN d * 24 + Min(later)
        ELSE NextDay(job, d + 1) * 24 + Min(job.hours)

\* the trigger's next fire time strictly after the instant 'after': the next
\* minute that is a multiple of the step inside a matching hour
NextFire(job, after) ==
    LET t == after + 1
        h == t \div 60
        m == t % 60
        mm == m + ((job.step - (m % job.step)) % job.step)
    IN  IF HourMatches(job, h) /\ mm <= 59 THEN h * 60 + mm
        ELSE NextHour(job, h + 1) * 60

\* mutant: shutdown leaves the scheduler as it was
shutdown_Noop(state) == state

\* self.scheduler.shutdown(): the scheduler processes no job any more
shutdown(state) == "stopped"

\* self.scheduler.add_job(...), twice: the jobs join the registered ones
add_jobs(registered, added) == registered \o added

\* the tokens the pipeline may be constructed with
Frequencies == {"5m", "15m", "1h", "4h", "1d", "2h"}

\* instants at which scheduled mode may be started: Saturday 12:03,
\* Sunday 23:50, Monday 10:00, Monday 16:50, Friday 16:50
StartInstants ==
    {At(6, 12, 3), At(0, 23, 50), At(1, 10, 0), At(1, 16, 50), At(5, 16, 50)}

\* start_scheduled_runs: the two CronTriggers are built and the two jobs added
\* before self.scheduler.start(). On a scheduler that is already running
\* add_job stores each job at once and start() then raises
\* SchedulerAlreadyRunningError, which the except logs and raises again.
StartScheduledRuns ==
    /\ \/ schedState = "init" /\ startOutcome = "none"
       \/ schedState = "running" /\ startOutcome = "returned"
    /\ LET n == interval_minutes(updateFrequency) IN
       IF CronRaises(n, validatesStep)
       THEN /\ startOutcome' = "raised"
            /\ UNCHANGED <<schedState, jobs>>
       ELSE /\ jobs' = add_jobs(jobs, <<Job(1..5, 0..16, n, clock), Job({0}, 18..23, n, clock)>>)
            /\ schedState' = "running"
            /\ startOutcome' = IF schedState = "running" THEN "already_running"
                               ELSE "returned"
    /\ UNCHANGED <<updateFrequency, validatesStep, clock, active, ended, fired, stopPc,
                   inFlightAtStop>>
    /\ UNCHANGED <<storeVars, signalVars, trendVars, concVars, kwVars, runVars>>

\* the scheduler processes the due job j: it submits run_pipeline to the
\* executor unless an instance of the same job is executing (max_instances = 1)
Fire(j) ==
    /\ schedState = "running"
    /\ j \in 1..Len(jobs)
    /\ jobs[j].next_run_time <= clock
    /\ Len(fired) < MaxEvents
    /\ LET busy == \E r \in active : fired[r].job = j IN
       /\ fired' = Append(fired, [job |-> j, at |-> clock, startup |-> jobs[j].first,
                                  skipped |-> busy, stop |-> stopPc])
       /\ active' = IF busy THEN active ELSE active \cup {Len(fired) + 1}
    /\ jobs' = [jobs EXCEPT ![j].next_run_time = NextFire(jobs[j], clock),
                            ![j].first = FALSE]
    /\ UNCHANGED <<updateFrequency, validatesStep, schedState, clock, ended, startOutcome,
                   stopPc, inFlightAtStop>>
    /\ UNCHANGED <<storeVars, signalVars, trendVars, concVars, kwVars, runVars>>

\* no job is due: the scheduler sleeps until the earliest next_run_time
Advance ==
    /\ schedState = "running"
    /\ \A j \in 1..Len(jobs) : jobs[j].next_run_time > clock
    /\ Len(fired) < MaxEvents
    /\ \E j \in 1..Len(jobs) :
          /\ \A k \in 1..Len(jobs) : jobs[j].next_run_time <= jobs[k].next_run_time
          /\ clock' = jobs[j].next_run_time
    /\ UNCHANGED <<updateFrequency, validatesStep, schedState, jobs, active, ended, fired,
                   startOutcome, stopPc, inFlightAtStop>>
    /\ UNCHANGED <<storeVars, signalVars, trendVars, concVars, kwVars, runVars>>

\* an invocation of run_pipeline reaches its end (it returns or it raises into
\* the executor, which logs the exception)
RunEnd(r) ==
    /\ r \in active
    /\ active' = active \ {r}
    /\ ended' = ended \cup {r}
    /\ UNCHANGED <<updateFrequency, validatesStep, schedState, jobs, clock, fired,
                   startOutcome, stopPc, inFlightAtStop>>
    /\ UNCHANGED <<storeVars, signalVars, trendVars, concVars, kwVars, runVars>>

\* stop_scheduled_runs is called, by a caller whose earlier call, if any, has
\* returned: shutdown() of a scheduler that is not running raises
\* SchedulerNotRunningError, which the except hands to log_error without
\* raise_exception; otherwise the scheduler stops and the call waits for the
\* executing jobs (wait=True)
StopScheduledRuns ==
    /\ stopPc \in {"none", "returned", "failed"}
    /\ IF schedState = "running"
       THEN /\ schedState' = shutdown(schedState)
            /\ stopPc' = "waiting"
            /\ inFlightAtStop' = active
       ELSE /\ stopPc' = IF log_error(FALSE) THEN "raised" ELSE "failed"
            /\ UNCHANGED <<schedState, inFlightAtStop>>
    /\ UNCHANGED <<updateFrequency, validatesStep, jobs, clock, active, ended, fired,
                   startOutcome>>
    /\ UNCHANGED <<storeVars, signalVars, trendVars, concVars, kwVars, runVars>>

\* the executing jobs have ended: shutdown() and stop_scheduled_runs return
StopReturn ==
    /\ stopPc = "waiting"
    /\ active = {}
    /\ stopPc' = "returned"
    /\ UNCHANGED <<updateFrequency, validatesStep, schedState, jobs, clock, active, ended,
                   fired, startOutcome, inFlightAtStop>>
    /\ UNCHANGED <<storeVars, signalVars, trendVars, concVars, kwVars, runVars>>

SchedInit ==
    /\ StoreIdle /\ SignalIdle /\ TrendIdle /\ ConcIdle /\ KwIdle /\ RunIdle
    /\ updateFrequency \in Frequencies
    /\ validatesStep \in BOOLEAN
    /\ clock \in StartInstants
    /\ schedState = "init" /\ jobs = <<>>
    /\ active = {} /\ ended = {} /\ fired = <<>>
    /\ startOutcome = "none" /\ stopPc = "none" /\ inFlightAtStop = {}

SchedNext ==
    \/ StartScheduledRuns
    \/ \E j \in 1..Len(jobs) : Fire(j)
    \/ Advance
    \/ \E r \in active : RunEnd(r)
    \/ StopScheduledRuns
    \/ StopReturn

SchedSpec == SchedInit /\ [][SchedNext]_vars

----------------------------------------------------------------------------
\* The trend generator on its own

\* the publication times of the observations: four consecutive 5-minute bins,
\* all in one bin of an hour
DataTimes == {0, 5, 10, 15}

DataScores == {Rat(1, 2), Rat(0, 1), Rat(-1, 2)}

\* what generate_trend_signals reads of a SentimentResult
Observation(timestamp, normalized_score) ==
    [timestamp |-> timestamp, normalized_score |-> normalized_score]

\* the timestamps of a batch: all datetimes (feed items), all strings
\* (scraped items), or the second one a string among datetimes
Stamped(points, kinds) ==
    [i \in 1..Len(points) |->
        Observation(IF kinds = "str" \/ (kinds = "mixed" /\ i = 2)
                    THEN IsoStr(points[i][1]) ELSE DateTime(points[i][1]),
                    points[i][2])]

\* the kinds of timestamps with the generator's configuration: feed items
\* under four configurations, scraped and mixed batches under the pipeline's
DataConfigs ==
    { <<"datetime", PipeWindowSizes, "5m">>, <<"datetime", PipeWindowSizes, "1h">>,
      <<"datetime", [short_term |-> 1, medium_term |-> 2, long_term |-> 4], "5m">>,
      <<"datetime", DefaultWindowSizes, "5m">>,
      <<"str", PipeWindowSizes, "5m">>, <<"mixed", PipeWindowSizes, "5m">> }

DataInputs ==
    {[kind |-> "data", sentiment_data |-> Stamped(points, kc[1]),
      window_sizes |-> kc[2], update_frequency |-> kc[3]] :
        points \in UNION {[1..n -> DataTimes \X DataScores] : n \in 0..MaxData},
        kc \in DataConfigs}

\* trend values for the two helpers
TrendGrid ==
    {Rat(-1, 1), Rat(-1, 2), Rat(-1, 20), Rat(0, 1), Rat(1, 20), Rat(1, 2), Rat(1, 1)}

TripleInputs ==
    {[kind |-> "triple", short |-> a, medium |-> b, long |-> c] :
        a \in TrendGrid, b \in TrendGrid, c \in TrendGrid}

GenerateTrendSignals ==
    /\ tgIn.kind = "data"
    /\ tgOut = None
    /\ tgOut' = [ret |-> generate_trend_signals(tgIn.sentiment_data, tgIn.window_sizes,
                                                tgIn.update_frequency, 1)]
    /\ UNCHANGED tgIn
    /\ UNCHANGED <<storeVars, signalVars, concVars, kwVars, runVars, schedVars>>

\* _calculate_trend_strength and _determine_direction on a triple
TrendOfTriple ==
    /\ tgIn.kind = "triple"
    /\ tgOut = None
    /\ tgOut' = [trend_strength |->
                     calculate_trend_strength(tgIn.short, tgIn.medium, tgIn.long),
                 change_direction |->
                     determine_direction(tgIn.short, tgIn.medium, tgIn.long)]
    /\ UNCHANGED tgIn
    /\ UNCHANGED <<storeVars, signalVars, concVars, kwVars, runVars, schedVars>>

TrendInit ==
    /\ StoreIdle /\ SignalIdle /\ ConcIdle /\ KwIdle /\ RunIdle /\ SchedIdle
    /\ tgIn \in DataInputs \cup TripleInputs
    /\ tgOut = None

TrendNext == GenerateTrendSignals \/ TrendOfTriple

TrendSpec == TrendInit /\ [][TrendNext]_vars

----------------------------------------------------------------------------
\* Two concurrent calls of Analyzer.analyze_text for the same (symbol, source,
\* text). A call's steps are its reads and writes of the shared table: the
\* SELECT of get_cached_sentiment, the scoring (which reads the clock when no
\* pub_date is given), the INSERT OR REPLACE of cache_sentiment_result, and the
\* return. Each statement is atomic in SQLite; nothing in analyze_text holds a
\* lock from the SELECT to the INSERT.

\* the SentimentResult a call builds after a miss
Scored(text, source, symbol, pub_date, nowv, seed, labels) ==
    analyze_text(<<>>, text, source, symbol, pub_date, "ok", nowv, seed, labels).ret

\* cached = self.db_handler.get_cached_sentiment(source, text); if cached: return cached
Lookup(t) ==
    /\ thPc[t] = "lookup"
    /\ LET cached == get_cached_sentiment(cache, cIn.source, cIn.text, TRUE)
       IN  IF cached # None
           THEN /\ thRet' = [thRet EXCEPT ![t] = cached]
                /\ thPc' = [thPc EXCEPT ![t] = "done"]
           ELSE /\ thPc' = [thPc EXCEPT ![t] = "score"]
                /\ UNCHANGED thRet
    /\ UNCHANGED <<cIn, storeVars>>

\* timestamp = pub_date if pub_date else datetime.now(timezone.utc), the two
\* scorers, the keywords, result = SentimentResult(...)
Score(t) ==
    /\ thPc[t] = "score"
    /\ thRet' = [thRet EXCEPT ![t] = Scored(cIn.text, cIn.source, cIn.symbol,
                                            cIn.pub_date, now, hashSeed, bertLabels)]
    /\ thPc' = [thPc EXCEPT ![t] = "write"]
    /\ now' = now + 1
    /\ UNCHANGED <<cIn, cache, vaderCalls, bertCalls, computed, last, calls, faults,
                   hashSeed, bertLabels>>

\* self.db_handler.cache_sentiment_result(result); return result
Write(t) ==
    /\ thPc[t] = "write"
    /\ LET w == cache_sentiment_result(cache, thRet[t], TRUE)
       IN  /\ cache' = w.cache
           /\ thRet' = [thRet EXCEPT ![t] = Returned(thRet[t], w)]
    /\ thPc' = [thPc EXCEPT ![t] = "done"]
    /\ UNCHANGED <<cIn, vaderCalls, bertCalls, computed, last, now, calls, faults,
                   hashSeed, bertLabels>>

ConcInputs ==
    { [text |-> text, source |-> source, symbol |-> symbol, pub_date |-> pub_date] :
          text \in Texts, source \in Sources, symbol \in Symbols, pub_date \in PubDates }

ConcInit ==
    /\ StoreIdle /\ SignalIdle /\ TrendIdle /\ KwIdle /\ RunIdle /\ SchedIdle
    /\ cIn \in ConcInputs
    /\ thPc = [t \in Threads |-> "lookup"]
    /\ thRet = [t \in Threads |-> None]

ConcNext ==
    /\ \E t \in Threads : Lookup(t) \/ Score(t) \/ Write(t)
    /\ UNCHANGED <<signalVars, trendVars, kwVars, runVars, schedVars>>

ConcSpec == ConcInit /\ [][ConcNext]_vars

----------------------------------------------------------------------------
\* Analyzer._extract_keywords on its own: one call per process, the process's
\* hash seed deciding the iteration order of set(words)

MaxWords == 3

\* the tokens the texts are made of: a keyword, the same with a capital, a
\* second keyword, and a token too short to be one
Vocabulary == {<<"g","o","l","d">>, <<"G","o","l","d">>, <<"r","i","s","e","s">>, <<"u","p">>}

KeywordTexts == {join(Space, ws) : ws \in UNION {[1..n -> Vocabulary] : n \in 0..MaxWords}}

HashSeeds == {0, 1}

KeywordInputs ==
    {[text |-> text, top_n |-> n, seed |-> seed] :
        text \in KeywordTexts, n \in {1, 2, top_n}, seed \in HashSeeds}

ExtractKeywords ==
    /\ kwIn # None
    /\ kwOut = None
    /\ kwOut' = [ret |-> extract_keywords(kwIn.text, kwIn.top_n, kwIn.seed)]
    /\ UNCHANGED kwIn
    /\ UNCHANGED <<storeVars, signalVars, trendVars, concVars, runVars, schedVars>>

KeywordInit ==
    /\ StoreIdle /\ SignalIdle /\ TrendIdle /\ ConcIdle /\ RunIdle /\ SchedIdle
    /\ kwIn \in KeywordInputs
    /\ kwOut = None

KeywordNext == ExtractKeywords

KeywordSpec == KeywordInit /\ [][KeywordNext]_vars

----------------------------------------------------------------------------
\* The signal generator on its own

SignalInit == StoreIdle /\ TrendIdle /\ ConcIdle /\ KwIdle /\ RunIdle /\ SchedIdle /\ sgIn \in SignalInputs /\ sgOut = None

SignalNext == GenerateTradingSignal /\ UNCHANGED <<storeVars, trendVars, concVars, kwVars, runVars, schedVars>>

SignalSpec == SignalInit /\ [][SignalNext]_vars

----------------------------------------------------------------------------
\* The analyzer called directly

\* the (source, text) pairs of the direct calls: a plain text, one with a
\* comma in a token, one without a keyword
DirectPairs == {<<"feedA", TextPlain>>, <<"feedA", TextComma>>, <<"feedB", TextShort>>}

Init ==
    /\ StoreInit
    /\ hashSeed = 0
    /\ bertLabels \in {"short", "long"}
    /\ SignalIdle /\ TrendIdle /\ ConcIdle /\ KwIdle
    /\ RunIdle
    /\ SchedIdle

Next ==
    /\ \E p \in DirectPairs, symbol \in Symbols, pub_date \in PubDates, env \in Envs :
           AnalyzeText(p[2], p[1], symbol, pub_date, env)
    /\ UNCHANGED <<signalVars, trendVars, concVars, kwVars, runVars, schedVars>>

Spec == Init /\ [][Next]_vars

----------------------------------------------------------------------------
\* Claims about the score cache

\* C1: over any sequence of analyze_text calls, and already when neither the
\* store nor a scorer ever fails, the lexicon scorer and the learned-model
\* scorer are invoked at most once per (source, text) pair.
C1_AtMostOnceScoring ==
    faults = 0 => \A p \in Pairs : vaderCalls[p] <= 1 /\ bertCalls[p] <= 1

\* C2: a call served from the cache returns a SentimentResult equal in every
\* field (keyword list included) to the result that analyze_text computed and
\* cached for that (source, text), already when nothing ever fails.
C2_CacheRoundTrip ==
    (faults = 0 /\ last # None /\ last.hit)
        => last.ret = computed[<<last.source, last.text>>]

\* normalized = 0.6 * vader + 0.4 * bert, in integers
Combined(r) ==
    10 * r.normalized_score.n * r.vader_score.d * r.bert_score.d
        = r.normalized_score.d * (6 * r.vader_score.n * r.bert_score.d
                                    + 4 * r.bert_score.n * r.vader_score.d)

InUnit(q) == -q.d <= q.n /\ q.n <= q.d

\* C16: every SentimentResult that analyze_text returns, freshly computed or
\* read from the cache, and every cached row has normalized_score =
\* 0.6 * vader_score + 0.4 * bert_score, a value in [-1,1] when both scores are.
C16_CombinationLaw ==
    /\ (last # None /\ last.ret # None) =>
          /\ Combined(last.ret)
          /\ (InUnit(last.ret.vader_score) /\ InUnit(last.ret.bert_score))
                => InUnit(last.ret.normalized_score)
    /\ \A i \in 1..Len(cache) : Combined(cache[i])

\* a result read from the cache with both scores non-zero
C16_Witness ==
    /\ last # None /\ last.hit
    /\ last.ret.vader_score # Rat(0, 1)
    /\ last.ret.bert_score # Rat(0, 1)
    /\ last.ret.normalized_score \notin {last.ret.vader_score, last.ret.bert_score}

\* the last call ran the scorers and the learned-model scorer failed in it
BertFailed == last # None /\ last.env = "bertFail" /\ ~last.hit

\* C17: when the learned-model scorer fails, analyze_text returns a
\* SentimentResult with bert_score = 0 and normalized_score = 0.6 * vader_score,
\* and writes it to the cache as it writes any other result.
C17_ScoringError ==
    BertFailed =>
        /\ last.ret # None
        /\ last.ret.bert_score = Rat(0, 1)
        /\ 10 * last.ret.normalized_score.n * last.ret.vader_score.d
              = 6 * last.ret.vader_score.n * last.ret.normalized_score.d
        /\ HasIsoformat(last.ret.timestamp) =>
              /\ last.stored
              /\ \E i \in 1..Len(cache) : cache[i] = RowOf(last.ret)
              /\ get_cached_sentiment(cache, last.source, last.text, TRUE) # None

\* the scorer of a model with long labels failed on a text with a non-zero
\* lexicon score, and the result was cached
C17_Witness ==
    /\ BertFailed
    /\ bertLabels = "long"
    /\ last.ret.vader_score # Rat(0, 1)
    /\ last.ret.normalized_score # Rat(0, 1)
    /\ last.stored

----------------------------------------------------------------------------
\* Claims about the signal generator (under SignalSpec)

SgRet == sgOut.out.ret
SgShort == sgIn.trend_signal.short_term_trend
SgStrength == sgIn.trend_signal.trend_strength
SgEmitted == sgOut # None /\ sgOut.out.ret # None

\* C9: whenever the computed confidence is below confidence_threshold the
\* emitted signal is HOLD whatever the base decision was; a base decision of
\* HOLD is never turned into BUY or SELL; with the default thresholds
\* (0.9, 0.01) and (0.6, 0.9) give HOLD and (0.8, 0.9) gives BUY.
C9_ConfidenceGating ==
    SgEmitted =>
        /\ RLt(SgRet.confidence, sgIn.thresholds["confidence_threshold"])
               => SgRet.signal = "HOLD"
        /\ sgOut.out.base = "HOLD" => SgRet.signal = "HOLD"
        /\ sgIn.thresholds = DefaultThresholds =>
              /\ (SgShort = Rat(9, 10) /\ SgStrength = Rat(1, 100)) => SgRet.signal = "HOLD"
              /\ (SgShort = Rat(6, 10) /\ SgStrength = Rat(9, 10)) => SgRet.signal = "HOLD"
              /\ (SgShort = Rat(8, 10) /\ SgStrength = Rat(9, 10)) => SgRet.signal = "BUY"

\* a base decision of BUY was gated to HOLD
C9_Witness ==
    /\ SgEmitted
    /\ sgOut.out.base = "BUY"
    /\ SgRet.signal = "HOLD"
    /\ SgShort = Rat(9, 10) /\ SgStrength = Rat(1, 100)

\* C10: before gating the decision is BUY when short_term_trend > buy, SELL
\* when short_term_trend < sell and HOLD otherwise, whatever the other fields
\* are; short_term_trend equal to the buy or the sell threshold gives HOLD.
C10_BaseDecision ==
    SgEmitted =>
        LET buy == sgIn.thresholds["buy"]
            sell == sgIn.thresholds["sell"]
        IN  /\ (SgShort.n * buy.d > buy.n * SgShort.d) => sgOut.out.base = "BUY"
            /\ (SgShort.n * sell.d < sell.n * SgShort.d) => sgOut.out.base = "SELL"
            /\ (/\ SgShort.n * buy.d <= buy.n * SgShort.d
                /\ SgShort.n * sell.d >= sell.n * SgShort.d) => sgOut.out.base = "HOLD"
            /\ (SgShort = buy \/ SgShort = sell) => sgOut.out.base = "HOLD"

\* short_term_trend equal to the buy threshold was decided HOLD
C10_Witness ==
    /\ SgEmitted
    /\ SgShort = sgIn.thresholds["buy"]
    /\ sgOut.out.base = "HOLD"

\* the thresholds hold the three keys of the generator's contract
SgComplete == DOMAIN sgIn.thresholds = {"buy", "sell", "confidence_threshold"}

\* C11: for every TrendSignal with short_term_trend in [-1,1] and
\* trend_strength in [0,1], a generator with thresholds {buy, sell,
\* confidence_threshold} returns a TradingSignal whose signal is BUY, SELL or
\* HOLD and whose confidence is min(|short_term_trend|, trend_strength), a
\* value in [0,1].
C11_SignalRange ==
    (sgOut # None /\ sgIn.trend_signal # None /\ SgComplete) =>
        /\ SgRet # None
        /\ SgRet.signal \in {"BUY", "SELL", "HOLD"}
        /\ LET a == [n |-> Abs(SgShort.n), d |-> SgShort.d]
               c == SgRet.confidence
           IN  /\ c \in {a, SgStrength}
               /\ c.n * a.d <= a.n * c.d
               /\ c.n * SgStrength.d <= SgStrength.n * c.d
               /\ 0 <= c.n /\ c.n <= c.d

\* a negative short_term_trend whose absolute value is the confidence
C11_Witness ==
    /\ SgEmitted
    /\ SgShort = Rat(-8, 10) /\ SgStrength = Rat(9, 10)
    /\ SgRet.confidence = Rat(8, 10)
    /\ SgRet.signal = "SELL"

----------------------------------------------------------------------------
\* Claims about one pipeline run

\* the position of a stage in the order of run_pipeline
StageRank(s) ==
    CASE s = "fetch" -> 1 [] s = "analyze" -> 2 [] s = "trend" -> 3
      [] s = "price" -> 4 [] s = "signal" -> 5

Has(log, s) == \E i \in 1..Len(log) : log[i] = s

\* the stages are in order and only the analysis of an item repeats
InOrder(log) ==
    /\ log # <<>> => log[1] = "fetch"
    /\ \A i, j \in 1..Len(log) :
          i < j => /\ StageRank(log[i]) <= StageRank(log[j])
                   /\ StageRank(log[i]) = StageRank(log[j]) => log[i] = "analyze"

\* C7: every run of run_pipeline ends in exactly one of two ways: it logged its
\* completion and returned normally, or an exception reached the top-level
\* handler and was raised to the caller; a failure is never swallowed and a
\* completed run never raises.
C7_RunOutcome ==
    /\ ~(failed /\ completed)
    /\ outcome \in {"none", "returned", "raised"}
    /\ pc = "done" <=> outcome # "none"
    /\ outcome = "returned" <=> (pc = "done" /\ completed)
    /\ outcome = "raised" <=> (pc = "done" /\ failed)
    /\ \A i \in 1..Len(runLog) : runLog[i].outcome \in {"returned", "raised"}

\* a run that raised in the middle of the analysis loop, after a run that returned
C7_Witness ==
    /\ pc = "done" /\ outcome = "raised" /\ failed
    /\ Has(stages, "analyze")
    /\ \E i \in 1..Len(runLog) : runLog[i].outcome = "returned"

\* C8: in one run the stages happen in the order fetch, analyze every item,
\* generate trend, fetch price, generate trading signal; the trend generator is
\* called only with a non-empty result list (and always then, in a run that
\* completes), the price fetch and the signal generator only after the trend
\* generator returned a TrendSignal, and a run whose trend generator returned
\* None skips both and still returns normally.
C8_StageOrder ==
    /\ InOrder(stages)
    /\ Has(stages, "trend") =>
          /\ results # <<>>
          /\ Len(SelectSeq(stages, LAMBDA s : s = "analyze")) = Len(items)
    /\ (completed /\ results # <<>>) => Has(stages, "trend")
    /\ (Has(stages, "price") \/ Has(stages, "signal")) =>
          (Has(stages, "trend") /\ trendSig # None)
    /\ Has(stages, "signal") => Has(stages, "price")
    /\ (completed /\ trendSig # None) => (Has(stages, "price") /\ Has(stages, "signal"))
    /\ (pc = "done" /\ ~failed /\ Has(stages, "trend") /\ trendSig = None) =>
          (outcome = "returned" /\ ~Has(stages, "price") /\ ~Has(stages, "signal"))

\* a run that went through every stage, after a run whose trend generator
\* returned None and which skipped the price and the signal
C8_Witness ==
    /\ completed
    /\ stages = <<"fetch", "analyze", "analyze", "analyze", "trend", "price", "signal">>
    /\ trendSig # None /\ tradeSig # None
    /\ \E i \in 1..Len(runLog) :
          /\ runLog[i].outcome = "returned"
          /\ Has(runLog[i].stages, "trend") /\ ~Has(runLog[i].stages, "price")

\* the results among what the analyses of this run returned, in call order
RECURSIVE NonNull(_)
NonNull(as) ==
    IF as = <<>> THEN <<>>
    ELSE (IF Head(as).ret # None THEN <<Head(as).ret>> ELSE <<>>) \o NonNull(Tail(as))

NoneCount(as) == Len(SelectSeq(as, LAMBDA a : a.ret = None))

WellFormed(batch) == \A i \in 1..Len(batch) : "title" \in DOMAIN batch[i]

\* C18: analyze_text never raises, so a run over N well-formed items of which k
\* analyses return None does not fail because of them; the list handed to the
\* trend generator is exactly the other N - k results in fetch order.
C18_ItemIsolation ==
    /\ results = NonNull(analyses)
    /\ Len(analyses) <= Len(items)
    /\ (items # <<>> /\ WellFormed(items)) => ~failed
    /\ pc \in {"trend", "price", "signal", "complete"} =>
          /\ Len(analyses) = Len(items)
          /\ Len(results) = Len(items) - NoneCount(analyses)
    /\ Has(stages, "trend") =>
          LET t == generate_trend_signals(NonNull(analyses), PipeWindowSizes,
                                          PipeFrequency, 0)
          IN  /\ NonNull(analyses) # <<>>
              /\ trendSig = None <=> t = None
              /\ trendSig # None =>
                    /\ trendSig.short_term_trend = t.short_term_trend
                    /\ trendSig.medium_term_trend = t.medium_term_trend
                    /\ trendSig.long_term_trend = t.long_term_trend

\* a run over three items, the analysis of one of which returned None, handed
\* the other two to the trend generator and returned
C18_Witness ==
    /\ pc = "done" /\ outcome = "returned"
    /\ Len(items) = 3
    /\ NoneCount(analyses) = 1
    /\ Len(results) = 2
    /\ Has(stages, "trend")

\* the analyses of this run whose cache write failed
WriteFailed(a) ==
    /\ ~a.hit
    /\ (a.writeFault \/ (a.ret # None /\ ~HasIsoformat(a.ret.timestamp)))

\* C19: when the cache write fails, analyze_text still returns the computed
\* SentimentResult, nothing is written, and the run goes on: the result is
\* collected and the failure never reaches the top-level handler.
C19_PersistenceError ==
    /\ \A i \in 1..Len(analyses) :
          WriteFailed(analyses[i]) =>
              /\ analyses[i].ret # None
              /\ ~analyses[i].stored
              /\ \E k \in 1..Len(results) : results[k] = analyses[i].ret
    /\ (/\ last # None /\ last.env = "writeFail" /\ ~last.hit) =>
          /\ last.ret # None
          /\ get_cached_sentiment(cache, last.source, last.text, TRUE) = None
    /\ (failed /\ analyses # <<>>) => Len(analyses) < Len(items)

\* a run whose first cache write failed went through every stage
C19_Witness ==
    /\ completed
    /\ Len(analyses) = 3
    /\ analyses[1].writeFault /\ ~analyses[1].hit /\ ~analyses[1].stored
    /\ Len(results) = 3
    /\ tradeSig # None

----------------------------------------------------------------------------
\* Claims about scheduled mode

\* Monday to Friday 00:00-16:59 or Sunday 18:00-23:59
InSession(t) ==
    \/ DayOf(t) \in 1..5 /\ HourOf(t) <= 16
    \/ DayOf(t) = 0 /\ HourOf(t) >= 18

\* the invocations of run_pipeline the scheduler started
Started == {i \in 1..Len(fired) : ~fired[i].skipped}

\* the firings of the cron triggers (not the ones at start-up)
Scheduled == {i \in 1..Len(fired) : ~fired[i].startup}

\* C3: in scheduled mode at most one invocation of run_pipeline is executing at
\* any time, the invocations fired at start-up by the two jobs included.
C3_NonOverlapping == Cardinality(active) <= 1

\* C4: after stop_scheduled_runs returns no invocation of run_pipeline is ever
\* started by the scheduler, and every invocation that was executing when stop
\* was called has run to its own end (stop waits for it, nothing aborts it).
C4_StopSemantics ==
    /\ \A i \in Started : fired[i].stop \notin {"waiting", "returned"}
    /\ stopPc = "waiting" => \A r \in inFlightAtStop : r \in active \/ r \in ended
    /\ stopPc = "returned" => (active = {} /\ inFlightAtStop \subseteq ended)
    /\ active \cap ended = {}
    /\ active \cup ended = Started

\* stop was called with invocations in progress and with firings pending, the
\* invocations ran to their end and stop returned
C4_Witness ==
    /\ stopPc = "returned"
    /\ schedState = "stopped"
    /\ inFlightAtStop # {}
    /\ inFlightAtStop \subseteq ended
    /\ \E j \in 1..Len(jobs) : jobs[j].next_run_time > clock

\* C5: for each of the five tokens scheduled mode starts and consecutive
\* scheduled firings inside a session are exactly 5, 15, 60, 240 or 1440
\* minutes apart.
C5_Cadence ==
    updateFrequency \in {"5m", "15m", "1h", "4h", "1d"} =>
        /\ startOutcome # "raised"
        /\ \A i, j \in Scheduled :
              ( /\ i < j
                /\ ~\E k \in Scheduled : i < k /\ k < j
                /\ fired[j].at - fired[i].at < 24 * 60
                /\ DayOf(fired[i].at) = DayOf(fired[j].at) )
              => fired[j].at - fired[i].at = interval_minutes(updateFrequency)

\* C6: every invocation of run_pipeline started by scheduled mode begins
\* inside the trading session.
C6_InSession == \A i \in Started : InSession(fired[i].at)

----------------------------------------------------------------------------
\* Claims about the trend generator (under TrendSpec)

TgData == tgIn.kind = "data" /\ tgOut # None
TgTriple == tgIn.kind = "triple" /\ tgOut # None

\* C12: generate_trend_signals returns None for every input, the empty one
\* included, that has fewer items than the largest configured window size.
C12_InsufficientData ==
    (TgData /\ \E k \in DOMAIN tgIn.window_sizes :
                   Len(tgIn.sentiment_data) < tgIn.window_sizes[k])
        => tgOut.ret = None

\* two observations three bins apart fill four bins, more than the largest
\* window, and still give None
C12_Witness ==
    /\ TgData
    /\ tgIn.window_sizes = PipeWindowSizes /\ tgIn.update_frequency = "5m"
    /\ Len(tgIn.sentiment_data) = 2
    /\ tgIn.sentiment_data[1].timestamp = DateTime(0)
    /\ tgIn.sentiment_data[2].timestamp = DateTime(15)
    /\ tgOut.ret = None

\* a > b for two fractions with positive denominators
Gt(a, b) == a.n * b.d > b.n * a.d

\* C13: change_direction is +1 exactly when short > medium > long, -1 exactly
\* when short < medium < long and 0 in every other case (any equality, any
\* non-monotonic configuration); it is always in {-1, 0, 1}.  The direction of
\* a TrendSignal is that of its own three trends.
C13_Direction ==
    /\ TgTriple =>
          /\ tgOut.change_direction \in {-1, 0, 1}
          /\ tgOut.change_direction = 1
                <=> (Gt(tgIn.short, tgIn.medium) /\ Gt(tgIn.medium, tgIn.long))
          /\ tgOut.change_direction = -1
                <=> (Gt(tgIn.medium, tgIn.short) /\ Gt(tgIn.long, tgIn.medium))
          /\ (tgIn.short = tgIn.medium \/ tgIn.medium = tgIn.long)
                => tgOut.change_direction = 0
    /\ (TgData /\ tgOut.ret # None) =>
          LET t == tgOut.ret IN
          /\ t.change_direction = 1
                <=> (/\ Gt(t.short_term_trend, t.medium_term_trend)
                     /\ Gt(t.medium_term_trend, t.long_term_trend))
          /\ t.change_direction = -1
                <=> (/\ Gt(t.medium_term_trend, t.short_term_trend)
                     /\ Gt(t.long_term_trend, t.medium_term_trend))
          /\ t.change_direction \in {-1, 0, 1}

\* short above medium with medium below long: no direction
C13_Witness ==
    /\ TgTriple
    /\ tgIn.short = Rat(1, 2) /\ tgIn.medium = Rat(-1, 2) /\ tgIn.long = Rat(1, 2)
    /\ tgOut.change_direction = 0

\* the scores strictly decrease as the timestamp increases
Decreasing(data) ==
    \A i, j \in 1..Len(data) :
        /\ i # j => data[i].timestamp.t # data[j].timestamp.t
        /\ data[i].timestamp.t < data[j].timestamp.t
              => Gt(data[i].normalized_score, data[j].normalized_score)

\* the bins from the first observation to the last
BinCount(data, width) ==
    LET bins == {data[i].timestamp.t \div width : i \in 1..Len(data)}
    IN  Max(bins) - Min(bins) + 1

\* enough points and enough bins for every window
Enough(data, window_sizes, width) ==
    /\ data # <<>>
    /\ \A k \in DOMAIN window_sizes :
          Len(data) >= window_sizes[k] /\ BinCount(data, width) >= window_sizes[k]

C14_UniformKinds ==
    (/\ TgData
     /\ ~MixedTimestamps(tgIn.sentiment_data)
     /\ Decreasing(tgIn.sentiment_data)
     /\ Enough(tgIn.sentiment_data, tgIn.window_sizes,
               ResampleMinutes(tgIn.update_frequency)))
        => (tgOut.ret # None /\ tgOut.ret.change_direction = -1)

\* 10 * (|short - medium| + |medium - long|) as a fraction, over the common
\* denominator of the three trends
TenDivergenceNum(a, b, c) ==
    10 * (Abs(a.n * b.d - b.n * a.d) * c.d + Abs(b.n * c.d - c.n * b.d) * a.d)
CommonDen(a, b, c) == a.d * b.d * c.d

\* the strength g of the trends a, b, c is min(10 * divergence, 1): in [0,1],
\* and 0 exactly when the three are equal
StrengthLaw(g, a, b, c) ==
    /\ IF TenDivergenceNum(a, b, c) >= CommonDen(a, b, c)
       THEN g = Rat(1, 1)
       ELSE g.n * CommonDen(a, b, c) = TenDivergenceNum(a, b, c) * g.d
    /\ 0 <= g.n /\ g.n <= g.d
    /\ g.n = 0 <=> (a = b /\ b = c)

\* C15: trend_strength equals min(10 * (|short - medium| + |medium - long|), 1)
\* and lies in [0,1] for every triple of trend values; it is 0 exactly when the
\* three trends are equal.  The strength of a TrendSignal is that of its own
\* three trends.
C15_TrendStrength ==
    /\ TgTriple => StrengthLaw(tgOut.trend_strength, tgIn.short, tgIn.medium, tgIn.long)
    /\ (TgData /\ tgOut.ret # None) =>
          StrengthLaw(tgOut.ret.trend_strength, tgOut.ret.short_term_trend,
                      tgOut.ret.medium_term_trend, tgOut.ret.long_term_trend)

\* a divergence of 0.05 gives a strength of one half, below the cap
C15_Witness ==
    /\ TgTriple
    /\ tgIn.short = Rat(1, 20) /\ tgIn.medium = Rat(1, 20) /\ tgIn.long = Rat(0, 1)
    /\ tgOut.trend_strength = Rat(1, 2)

\* the two calls have both returned
BothDone == \A t \in Threads : thPc[t] = "done"

\* the rows of the table under the calls' key
KeyRows ==
    SelectSeq(cache, LAMBDA row : row.symbol = cIn.symbol /\ row.source = cIn.source
                                  /\ row.text = cIn.text)

Scores(result) ==
    <<result.vader_score, result.bert_score, result.normalized_score>>

\* C20: when two analyze_text calls for the same (symbol, source, text)
\* interleave in any order and both have returned, the cache holds exactly one
\* record for that key, and both callers and the cache hold the same scores
\* and the same record.
C20_ConcurrentIdempotent ==
    BothDone =>
        /\ Len(KeyRows) = 1
        /\ thRet[1] = thRet[2]
        /\ ResultOf(KeyRows[1]) = thRet[1]

\* what does hold in every interleaving: at most one record under the key,
\* and the same three scores with both callers and in the record
C20_SameScores ==
    BothDone =>
        /\ Len(KeyRows) <= 1
        /\ Scores(thRet[1]) = Scores(thRet[2])
        /\ \A i \in 1..Len(KeyRows) : Scores(ResultOf(KeyRows[i])) = Scores(thRet[1])

\* both calls missed and wrote, no pub_date: one record, but the callers hold
\* records with different timestamps
C20_Diverged ==
    /\ BothDone
    /\ cIn.pub_date = None
    /\ Len(KeyRows) = 1
    /\ thRet[1].timestamp # thRet[2].timestamp

\* C27: every TradingSignal whose signal is BUY or SELL has both
\* |short_term_trend| >= confidence_threshold and trend_strength >=
\* confidence_threshold; with the default thresholds no BUY is emitted for
\* short_term_trend in (0.5, 0.7) and no SELL for short_term_trend in (-0.7, -0.5).
C27_EffectiveThreshold ==
    (SgEmitted /\ SgRet.signal \in {"BUY", "SELL"}) =>
        LET ct == sgIn.thresholds["confidence_threshold"]
        IN  /\ RLe(ct, RAbs(SgShort))
            /\ RLe(ct, SgStrength)
            /\ sgIn.thresholds = DefaultThresholds =>
                  /\ ~(RLt(Rat(5, 10), SgShort) /\ RLt(SgShort, Rat(7, 10)))
                  /\ ~(RLt(Rat(-7, 10), SgShort) /\ RLt(SgShort, Rat(-5, 10)))

\* with the default thresholds a short_term_trend of -0.6 at full strength,
\* below the sell threshold, was emitted as HOLD
C27_Witness ==
    /\ SgEmitted
    /\ sgIn.thresholds = DefaultThresholds
    /\ SgShort = Rat(-6, 10) /\ SgStrength = Rat(1, 1)
    /\ sgOut.out.base = "SELL"
    /\ SgRet.signal = "HOLD"

\* C25: generate_trend_signals returns None whenever the number of bins, from
\* the first observation's bin to the last one's, is below the largest window
\* size, even if the number of input items is at least that size.
C25_BinPostcondition ==
    (/\ TgData
     /\ tgIn.sentiment_data # <<>>
     /\ BinCount(tgIn.sentiment_data, ResampleMinutes(tgIn.update_frequency))
            < MaxWindow(tgIn.window_sizes))
        => tgOut.ret = None

\* three feed items for windows up to 3, two of them in one 5-minute bin:
\* two bins, and None
C25_Witness ==
    /\ TgData
    /\ tgIn.window_sizes = PipeWindowSizes /\ tgIn.update_frequency = "5m"
    /\ Len(tgIn.sentiment_data) = 3
    /\ ~MixedTimestamps(tgIn.sentiment_data)
    /\ BinCount(tgIn.sentiment_data, 5) = 2
    /\ tgOut.ret = None

\* data with the items at positions i and j exchanged
Swapped(data, i, j) ==
    [k \in 1..Len(data) |-> IF k = i THEN data[j] ELSE IF k = j THEN data[i] ELSE data[k]]

\* what a call's outcome is compared by: None, or the three trends, the
\* strength and the direction
Outcome(ret) ==
    IF ret = None THEN None
    ELSE <<ret.short_term_trend, ret.medium_term_trend, ret.long_term_trend,
           ret.trend_strength, ret.change_direction>>

C24_PriceFallback ==
    priceFetch # None =>
        LET p == priceFetch
            raised == p.exc = "5d" \/ (p.exc = "30d" /\ p.h5 = <<>>)
        IN  /\ trendSig # None
            /\ p.current_price =
                  IF raised THEN Rat(0, 1)
                  ELSE IF p.h5 # <<>> THEN p.h5[Len(p.h5)]
                  ELSE IF p.h30 # <<>> THEN p.h30[Len(p.h30)]
                  ELSE Rat(0, 1)
            /\ p.queried \in {<<"5d">>, <<"5d", "30d">>}
            /\ p.queried = <<"5d", "30d">> => p.h5 = <<>>
            /\ (p.h5 = <<>> /\ p.exc # "5d") => p.queried = <<"5d", "30d">>
            /\ pc \in {"complete", "done"} =>
                  (tradeSig # None /\ tradeSig.price = p.current_price)
            /\ pc = "done" => outcome = "returned"

\* the 5-day window was empty, the 30-day one was taken, and the run returned
C24_Witness ==
    /\ pc = "done"
    /\ priceFetch # None
    /\ priceFetch.h5 = <<>> /\ priceFetch.exc = "none"
    /\ priceFetch.queried = <<"5d", "30d">>
    /\ tradeSig # None /\ tradeSig.price = Rat(3400, 1)
    /\ outcome = "returned"

\* the 30-day query raised: the price is 0.0 and the run returned
C24_Raised ==
    /\ pc = "done"
    /\ priceFetch # None
    /\ priceFetch.h5 = <<>> /\ priceFetch.exc = "30d" /\ priceFetch.h30 # <<>>
    /\ tradeSig # None /\ tradeSig.price = Rat(0, 1)
    /\ outcome = "returned"

\* what get_cached_sentiment returns right after the last call, for its key
ReadBack == get_cached_sentiment(cache, last.source, last.text, TRUE)

\* a record with the source, text and normalized_score of r
Matches(g, r) ==
    /\ g # None
    /\ g.source = r.source /\ g.text = r.text
    /\ g.normalized_score = r.normalized_score

\* C22: immediately after analyze_text returns a non-null result r for
\* (text, source), get_cached_sentiment(source, text) returns a record whose
\* source, text and normalized_score equal those of r, already when neither the
\* store nor a scorer ever fails.
C22_WriteThrough ==
    (faults = 0 /\ last # None /\ last.ret # None) => Matches(ReadBack, last.ret)

\* the same property for results whose timestamp is a datetime
C22_DatetimeStamps ==
    (faults = 0 /\ last # None /\ last.ret # None /\ HasIsoformat(last.ret.timestamp))
        => Matches(ReadBack, last.ret)

\* a result was returned with nothing failing, and the cache has no record of it
C22_NotCached ==
    /\ faults = 0 /\ last # None /\ last.ret # None
    /\ ReadBack = None

\* the rows of table c that a lookup of (source, text) selects
RowsFor(c, source, text) ==
    SelectSeq(c, LAMBDA row : row.source = source /\ row.text = text)

\* no two rows of table c have the same (source, text)
OnePerPair(c) ==
    \A i, j \in 1..Len(c) :
        (c[i].source = c[j].source /\ c[i].text = c[j].text) => i = j

\* C28: with a working store and sequential calls, analyze_text for an already
\* cached (source, text) under a different symbol adds no record and returns
\* the record carrying the symbol of the first analysis; a call with a working
\* store never makes a second record for a (source, text).
C28_HitUnderOtherSymbol ==
    [][ (last' # None /\ last'.env \notin {"readFail", "writeFail"}) =>
           LET rows == RowsFor(cache, last'.source, last'.text) IN
           /\ (rows # <<>> /\ rows[1].symbol # last'.symbol) =>
                 /\ cache' = cache
                 /\ last'.hit
                 /\ last'.ret = ResultOf(rows[1])
                 /\ last'.ret.symbol = rows[1].symbol
           /\ OnePerPair(cache) => OnePerPair(cache')
      ]_vars

\* a text cached under GC=F was asked for under SI=F: the call was served the
\* GC=F record and the table still has one row
C28_Witness ==
    /\ last # None /\ last.hit
    /\ last.env \notin {"readFail", "writeFail"}
    /\ last.symbol = "SI=F" /\ last.ret.symbol = "GC=F"
    /\ Len(cache) = 1

----------------------------------------------------------------------------
\* Claims about keyword extraction (under KeywordSpec)

\* the whitespace-separated tokens of the text longer than 3 characters, in
\* lower case
Candidates(text) == Filter4(split(text))

\* the list has at most n distinct candidate tokens, in descending frequency
KeywordShape(kw, text, n) ==
    /\ Len(kw) <= n
    /\ \A i \in 1..Len(kw) : \E j \in 1..Len(Candidates(text)) : Candidates(text)[j] = kw[i]
    /\ \A i, j \in 1..Len(kw) : kw[i] = kw[j] => i = j
    /\ \A i, j \in 1..Len(kw) :
          i < j => Count(Candidates(text), kw[i]) >= Count(Candidates(text), kw[j])

\* C23: for the same text, every run returns the same ordered keyword list,
\* consisting of at most N distinct lowercase whitespace-separated tokens
\* longer than 3 characters, ordered by descending frequency, with
\* equal-frequency tokens in an order that does not vary between runs.
C23_KeywordDeterminism ==
    kwOut # None =>
        /\ KeywordShape(kwOut.ret, kwIn.text, kwIn.top_n)
        /\ \A seed \in HashSeeds : extract_keywords(kwIn.text, kwIn.top_n, seed) = kwOut.ret

\* what holds in every run: the shape of the list
C23_Shape ==
    kwOut # None => KeywordShape(kwOut.ret, kwIn.text, kwIn.top_n)

\* two tokens of equal frequency: a run under another hash seed gives them in
\* the other order
C23_TieOrder ==
    /\ kwOut # None
    /\ kwIn.text = join(Space, <<<<"g","o","l","d">>, <<"r","i","s","e","s">>>>)
    /\ kwIn.top_n = top_n
    /\ \E seed \in HashSeeds :
          /\ Len(extract_keywords(kwIn.text, kwIn.top_n, seed)) = 2
          /\ extract_keywords(kwIn.text, kwIn.top_n, seed) = Reverse(kwOut.ret)

----------------------------------------------------------------------------
\* Claims about failures of start and stop (under SchedSpec)

\* C29: when start_scheduled_runs raises (for example because it is called a
\* second time while the scheduler is running), the registered jobs are the
\* same as before the call; a second start never leaves more than the two
\* session jobs registered.
C29_FailedStartUnchanged ==
    [][ (startOutcome' # startOutcome /\ startOutcome' \in {"raised", "already_running"})
            => (jobs' = jobs /\ Len(jobs') <= 2) ]_vars

\* the same property for a start that fails while building its triggers
C29_FirstStart ==
    [][ (startOutcome' # startOutcome /\ startOutcome' = "raised") => jobs' = jobs ]_vars

\* the second start raised and four jobs are registered
C29_FourJobs ==
    /\ startOutcome = "already_running"
    /\ schedState = "running"
    /\ Len(jobs) = 4

\* C30: stop_scheduled_runs never raises: called in any state (never started,
\* running, or already stopped) it goes on to return normally, logging the
\* scheduler's error instead of propagating it, and when it returns the
\* scheduler is not running, so no scheduled invocation is pending.
C30_StopNeverRaises ==
    [][ stopPc' # stopPc =>
           /\ stopPc' \in {"waiting", "returned", "failed"}
           /\ stopPc' \in {"returned", "failed"} => schedState' # "running"
           /\ stopPc' = "failed" => (schedState' = schedState /\ jobs' = jobs)
      ]_vars

\* a second stop, on the stopped scheduler, logged the error and returned
C30_Witness ==
    /\ stopPc = "failed"
    /\ schedState = "stopped"
    /\ inFlightAtStop # {}
    /\ inFlightAtStop \subseteq ended

\* a stop before any start logged the error and returned
C30_NeverStarted ==
    /\ stopPc = "failed"
    /\ schedState = "init"
    /\ startOutcome = "none"

----------------------------------------------------------------------------
\* Claims about the cache across runs and refreshes (under RefreshSpec)

\* every (source, text) with a record in table c has one in table d
Kept(c, d) ==
    \A i \in 1..Len(c) :
        \E j \in 1..Len(d) : d[j].source = c[i].source /\ d[j].text = c[i].text

\* C21: cache records are never deleted: once a SentimentResult for
\* (source, text) is in the cache it stays there across any sequence of
\* analyze calls, pipeline runs and data refreshes.
C21_NeverDeleted == [][Kept(cache, cache')]_vars

\* a feed item was scored twice although nothing ever failed: the refresh
\* deleted its record between two runs
C21_Rescored ==
    /\ faults = 0
    /\ vaderCalls[<<"feedA", TextPlain>>] = 2
    /\ Len(cache) > 0
====
